---- MODULE Spec2Model ----
(***************************************************************************)
(* Inventory / sales consistency core of the clothing store management     *)
(* system: the SQLite tables written by ProductController,                 *)
(* InventoryController, SaleController and CustomerController, the         *)
(* connection's transaction (implicit BEGIN before a write, commit,        *)
(* rollback), and the controllers' operations, writes and queries, one     *)
(* action per public controller method.                                    *)
(***************************************************************************)
EXTENDS Integers, Sequences, FiniteSets, Bags, TLC

VARIABLES
    db,      \* the tables as the single connection sees them (pending writes included)
    disk,    \* the tables as last committed
    pre,     \* the connection's view when the last controller call started
    last,    \* the last controller call: operation, arguments, outcome
    current_sale  \* the Sale object that is being put together for create_sale

vars == <<db, disk, pre, last, current_sale>>

(***************************************************************************)
(* Bounds of the model.                                                    *)
(***************************************************************************)
MaxProducts == 1     \* product ids handed out
MaxVariants == 2     \* variant ids handed out
MaxSales == 2        \* sale ids handed out
MaxItems == 2        \* line items of a Sale object
MaxQty == 2          \* largest quantity argument
MaxManual == 2       \* rows of inventory_transactions written by update_inventory
MaxCustomers == 2    \* customer ids handed out
UnitPrice == 3       \* price of a product, in whole currency units
OneSale == 1         \* sale ids handed out where one sale is enough
OneCustomer == 1     \* customer ids handed out where one customer is enough
OneVariant == 1      \* variant ids handed out in the small store
OneManual == 1       \* rows written by update_inventory in the small store
OneLine == 1         \* line items of a sale in the small store
MaxCategories == 16  \* last value of the AUTOINCREMENT counter of categories
MaxLine == 3         \* largest quantity of a line of the Sale object

Percent == 100       \* a discount is a percentage: discount_percent / 100

NULL == 0            \* SQL NULL / Python None in an integer column (row ids start at 1)

Codes == {"P-001"}
Sizes == {"S", "M"}
Colors == {"Rojo"}
NoEmail == "None"    \* Customer.email left at its default, stored as NULL
Emails == {NoEmail, "", "ana@tienda.mx"}
Discounts == {0, 50} \* Product.discount_percent

\* An amount of money is kept in units of 1 / Percent^2 of the currency unit,
\* so that a price with up to two discounts applied is a whole number.
Money(units) == units * Percent * Percent
Prices == {Money(UnitPrice), Money(UnitPrice + 1)}

\* the names of the default categories setup_database inserts, in its order
default_categories == <<"Camisetas", "Pantalones", "Accesorios", "Vestidos", "Chaquetas">>
CategoryNames == {"Camisetas", "Calzado"}   \* names given to add_category, update_category
CategoryIds == {1, 6}                       \* ids given to update_category, delete_category

\* models/inventory.py: InventoryTransaction type constants
SALE == "SALE"
PURCHASE == "PURCHASE"
ADJUSTMENT == "ADJUSTMENT"
RETURN == "RETURN"

(***************************************************************************)
(* The schema after setup_database: the default categories, every other    *)
(* table empty, AUTOINCREMENT counters (sqlite_sequence) at the last id     *)
(* handed out.  Rows carry the columns the controllers decide              *)
(* on (ids of child tables, timestamps and notes are left out): inventory  *)
(* is a sequence in rowid order, which is the order fetchone reads it in;  *)
(* sale_items and inventory_transactions, where equal rows can repeat, are *)
(* bags of rows.                                                           *)
(***************************************************************************)
EmptyDb ==
    [ categories             |-> {[id |-> i, name |-> default_categories[i]] :
                                        i \in DOMAIN default_categories},
      products               |-> {},      \* [id, code, category_id, price, discount_percent]
      product_variants       |-> {},      \* [id, product_id, size, color]
      inventory              |-> <<>>,    \* [product_variant_id, quantity]
      customers              |-> {},      \* [id, email]
      sales                  |-> {},      \* [id, customer_id, total_amount]
      sale_items             |-> EmptyBag, \* [sale_id, product_variant_id, quantity,
                                           \*  unit_price, discount_percent, subtotal]
      inventory_transactions |-> EmptyBag, \* [product_variant_id, quantity_change, transaction_type, reference_id]
      seq_categories         |-> Len(default_categories),
      seq_products           |-> 0,
      seq_variants           |-> 0,
      seq_sales              |-> 0,
      seq_customers          |-> 0 ]

(***************************************************************************)
(* Connection: commit and rollback.                                        *)
(***************************************************************************)
\* a rollback that drops nothing
NoRollback(d) == d

\* a commit that writes nothing to the database file
CommitNothing(d) == disk

\* conn.rollback(): the pending writes of the connection are dropped
Rollback(d) == disk

\* conn.commit(): the pending writes become the committed tables
Commit(d) == d

\* DatabaseManager.execute: a statement that raises sqlite3.Error rolls the
\* connection back and raises; otherwise the statement's effect is pending.
Execute(d, effect, fails) ==
    IF fails THEN [db |-> Rollback(d), raised |-> TRUE]
             ELSE [db |-> effect, raised |-> FALSE]

(***************************************************************************)
(* Statements.                                                             *)
(***************************************************************************)
\* sum of the values of a function with a finite domain
RECURSIVE SumOver(_)
SumOver(f) ==
    IF DOMAIN f = {} THEN 0
    ELSE LET r == CHOOSE x \in DOMAIN f : TRUE
         IN  f[r] + SumOver([x \in DOMAIN f \ {r} |-> f[x]])

\* the rows of a table (a bag) that a WHERE clause selects
Where(table, rows) == [r \in rows |-> table[r]]

InventoryRows(d, v) == SelectSeq(d.inventory, LAMBDA r : r.product_variant_id = v)

\* SELECT ... FROM inventory WHERE product_variant_id = ?  (fetchone)
HasInventory(d, v) == InventoryRows(d, v) # <<>>
Quantity(d, v) == Head(InventoryRows(d, v)).quantity

\* UPDATE inventory SET quantity = ? WHERE product_variant_id = ?
UpdateInventoryRow(d, v, q) ==
    [d EXCEPT !.inventory =
        [i \in DOMAIN d.inventory |->
            IF d.inventory[i].product_variant_id = v
            THEN [d.inventory[i] EXCEPT !.quantity = q]
            ELSE d.inventory[i]]]

\* a transaction row that loses its reference_id
InsertTransactionNoRef(d, v, change, type, ref) ==
    [d EXCEPT !.inventory_transactions =
        @ (+) SetToBag({[product_variant_id |-> v, quantity_change |-> change,
                         transaction_type |-> type, reference_id |-> NULL]})]

\* a transaction row that records the size of the change without its sign
InsertTransactionUnsigned(d, v, change, type, ref) ==
    [d EXCEPT !.inventory_transactions =
        @ (+) SetToBag({[product_variant_id |-> v,
                         quantity_change |-> IF change < 0 THEN 0 - change ELSE change,
                         transaction_type |-> type, reference_id |-> ref]})]

\* a ledger that keeps its latest row only
InsertTransactionOverwriting(d, v, change, type, ref) ==
    [d EXCEPT !.inventory_transactions =
        SetToBag({[product_variant_id |-> v, quantity_change |-> change,
                   transaction_type |-> type, reference_id |-> ref]})]

\* INSERT INTO inventory_transactions
InsertTransaction(d, v, change, type, ref) ==
    [d EXCEPT !.inventory_transactions =
        @ (+) SetToBag({[product_variant_id |-> v, quantity_change |-> change,
                         transaction_type |-> type, reference_id |-> ref]})]

\* an insert that takes the rowid after the largest one in the table, as a
\* table without AUTOINCREMENT does
InsertSaleReusingId(d, sale) ==
    LET ids == {s.id : s \in d.sales}
        id == IF ids = {} THEN 1 ELSE 1 + CHOOSE m \in ids : \A i \in ids : i <= m
    IN  [d EXCEPT !.seq_sales = id,
                  !.sales = @ \cup {[id |-> id,
                                      customer_id |-> sale.customer_id,
                                      total_amount |-> sale.total_amount]}]

\* INSERT INTO sales; lastrowid is the new seq_sales
InsertSale(d, sale) ==
    [d EXCEPT !.seq_sales = @ + 1,
              !.sales = @ \cup {[id |-> d.seq_sales + 1,
                                  customer_id |-> sale.customer_id,
                                  total_amount |-> sale.total_amount]}]

\* FOREIGN KEY (customer_id) REFERENCES customers(id): NULL refers to nobody
CustomerExists(d, customer_id) == \E c \in d.customers : c.id = customer_id

\* INSERT INTO sale_items
InsertSaleItem(d, sale_id, item) ==
    [d EXCEPT !.sale_items =
        @ (+) SetToBag({[sale_id |-> sale_id,
                         product_variant_id |-> item.product_variant_id,
                         quantity |-> item.quantity,
                         unit_price |-> item.unit_price,
                         discount_percent |-> item.discount_percent,
                         subtotal |-> item.subtotal]})]

\* FOREIGN KEY (product_variant_id) REFERENCES product_variants(id)
VariantExists(d, v) == \E r \in d.product_variants : r.id = v

(***************************************************************************)
(* Outcome of a controller call: the connection's view and the committed   *)
(* tables after it, whether it returned (ok) or raised, the returned id,   *)
(* and what made it raise.                                                 *)
(***************************************************************************)
Returned(d, ret) ==
    [db |-> d, disk |-> Commit(d), ok |-> TRUE, ret |-> ret, error |-> "none"]

\* except Exception: self.db.conn.rollback(); raise Exception(...)
Raised(d, error) ==
    [db |-> Rollback(d), disk |-> disk, ok |-> FALSE, ret |-> NULL, error |-> error]

\* a query that returns: nothing is committed, nothing rolled back
Fetched(d, result) ==
    [db |-> d, disk |-> disk, ok |-> TRUE, ret |-> NULL, error |-> "none",
     result |-> result]

\* except Exception: raise Exception(...) of the queries, which do not roll back
\* themselves; d is what DatabaseManager.execute left
QueryRaised(d) ==
    [db |-> d, disk |-> disk, ok |-> FALSE, ret |-> NULL, error |-> "storage",
     result |-> <<>>]

\* a SELECT through DatabaseManager.execute: no effect on the tables
Select(d, fails) == Execute(d, d, fails)

(***************************************************************************)
(* DatabaseManager.setup_database                                          *)
(***************************************************************************)
NameTaken(d, name) == \E c \in d.categories : c.name = name

\* INSERT INTO categories; AUTOINCREMENT hands out the next id
InsertCategory(d, name) ==
    [d EXCEPT !.seq_categories = @ + 1,
              !.categories = @ \cup {[id |-> d.seq_categories + 1, name |-> name]}]

\* an insert that adds the row whatever names are there
InsertCategoryAgain(d, name) == InsertCategory(d, name)

\* INSERT OR IGNORE INTO categories: categories.name is UNIQUE, a name that is
\* there is skipped (SQLite still advances the AUTOINCREMENT counter)
InsertOrIgnoreCategory(d, name) ==
    IF NameTaken(d, name) THEN [d EXCEPT !.seq_categories = @ + 1]
    ELSE InsertCategory(d, name)

\* setup_database, the loop over default_categories; n statements of the loop
\* have been executed
RECURSIVE DefaultCategoriesLoop(_, _, _, _)
DefaultCategoriesLoop(d, names, fault, n) ==
    IF names = <<>> THEN [db |-> d, raised |-> FALSE]
    ELSE
      LET e1 == Execute(d, InsertOrIgnoreCategory(d, Head(names)), fault = n + 1)
      IN  IF e1.raised THEN e1
          ELSE DefaultCategoriesLoop(e1.db, Tail(names), fault, n + 1)

\* setup_database: CREATE TABLE IF NOT EXISTS leaves the tables that exist, then
\* the default categories, then commit.  It has no except clause: a statement
\* that raises has rolled back in DatabaseManager.execute.
setup_database(fault) ==
    LET r == DefaultCategoriesLoop(db, default_categories, fault, 0)
    IN  IF r.raised
        THEN [db |-> r.db, disk |-> disk, ok |-> FALSE, ret |-> NULL, error |-> "storage"]
        ELSE Returned(r.db, NULL)

(***************************************************************************)
(* InventoryController                                                     *)
(***************************************************************************)
\* a lookup that answers from the tables as they were before the previous call
get_inventory_stale(product_variant_id, fault) ==
    LET e1 == Select(db, fault = 1)
    IN  IF e1.raised THEN QueryRaised(e1.db)
        ELSE IF ~HasInventory(pre, product_variant_id) THEN Fetched(e1.db, <<>>)
        ELSE Fetched(e1.db, <<[product_variant_id |-> product_variant_id,
                               quantity |-> Quantity(pre, product_variant_id)]>>)

\* get_inventory: None (no result row), or the Inventory object of the first row
get_inventory(product_variant_id, fault) ==
    LET e1 == Select(db, fault = 1)
    IN  IF e1.raised THEN QueryRaised(e1.db)
        ELSE IF ~HasInventory(e1.db, product_variant_id) THEN Fetched(e1.db, <<>>)
        ELSE Fetched(e1.db, <<[product_variant_id |-> product_variant_id,
                               quantity |-> Quantity(e1.db, product_variant_id)]>>)

\* inventory JOIN product_variants JOIN products
StockRows(d) ==
    {[product_id |-> r.product_id, variant_id |-> r.id,
      quantity |-> d.inventory[i].quantity] :
        <<r, i>> \in {x \in d.product_variants \X DOMAIN d.inventory :
                        /\ d.inventory[x[2]].product_variant_id = x[1].id
                        /\ \E p \in d.products : p.id = x[1].product_id}}

\* get_low_stock_items(threshold): WHERE i.quantity > 0 AND i.quantity <= ?
get_low_stock_items(threshold, fault) ==
    LET e1 == Select(db, fault = 1)
    IN  IF e1.raised THEN QueryRaised(e1.db)
        ELSE Fetched(e1.db, {r \in StockRows(e1.db) :
                                r.quantity > 0 /\ r.quantity <= threshold})

\* get_out_of_stock_items: WHERE i.quantity = 0
get_out_of_stock_items(fault) ==
    LET e1 == Select(db, fault = 1)
    IN  IF e1.raised THEN QueryRaised(e1.db)
        ELSE Fetched(e1.db, {r \in StockRows(e1.db) : r.quantity = 0})

\* update_inventory: fault = k makes the k-th write statement of the call
\* raise sqlite3.Error (0: none does)
update_inventory(product_variant_id, new_quantity, transaction_type, reference_id, fault) ==
    IF ~HasInventory(db, product_variant_id) THEN Raised(db, "not_found")
    ELSE
      LET current_quantity == Quantity(db, product_variant_id)
          quantity_change == new_quantity - current_quantity
          e1 == Execute(db, UpdateInventoryRow(db, product_variant_id, new_quantity),
                        fault = 1)
      IN  IF e1.raised THEN Raised(e1.db, "storage")
          ELSE
            LET e2 == Execute(e1.db,
                              InsertTransaction(e1.db, product_variant_id, quantity_change,
                                                transaction_type, reference_id),
                              fault = 2 \/ ~VariantExists(e1.db, product_variant_id))
            IN  IF e2.raised THEN Raised(e2.db, "storage")
                ELSE Returned(e2.db, NULL)

\* an adjustment that never checks the resulting quantity
adjust_inventory_unchecked(product_variant_id, quantity_change, fault) ==
    IF ~HasInventory(db, product_variant_id)
    THEN [db |-> db, disk |-> disk, ok |-> FALSE, ret |-> NULL, error |-> "not_found"]
    ELSE update_inventory(product_variant_id,
                          Quantity(db, product_variant_id) + quantity_change,
                          ADJUSTMENT, NULL, fault)

\* adjust_inventory: its own except clause re-raises without a rollback
adjust_inventory(product_variant_id, quantity_change, fault) ==
    IF ~HasInventory(db, product_variant_id)
    THEN [db |-> db, disk |-> disk, ok |-> FALSE, ret |-> NULL, error |-> "not_found"]
    ELSE
      LET new_quantity == Quantity(db, product_variant_id) + quantity_change
      IN  IF new_quantity < 0
          THEN [db |-> db, disk |-> disk, ok |-> FALSE, ret |-> NULL, error |-> "negative"]
          ELSE update_inventory(product_variant_id, new_quantity, ADJUSTMENT, NULL, fault)

(***************************************************************************)
(* ProductController                                                       *)
(***************************************************************************)
\* the ids of the five default categories setup_database inserts
DefaultCategories == DOMAIN default_categories

\* INSERT INTO products; products.code is UNIQUE
InsertProduct(d, product) ==
    [d EXCEPT !.seq_products = @ + 1,
              !.products = @ \cup {[id |-> d.seq_products + 1, code |-> product.code,
                                    category_id |-> product.category_id,
                                    price |-> product.price,
                                    discount_percent |-> product.discount_percent]}]

\* category_id INTEGER NOT NULL, FOREIGN KEY (category_id) REFERENCES categories(id)
CategoryMissing(d, product) == \A c \in d.categories : c.id # product.category_id

CodeTaken(d, code) == \E p \in d.products : p.code = code

ProductExists(d, product_id) == \E p \in d.products : p.id = product_id

\* INSERT INTO product_variants; UNIQUE(product_id, size, color), FK product_id
InsertVariant(d, product_id, size, color) ==
    [d EXCEPT !.seq_variants = @ + 1,
              !.product_variants = @ \cup {[id |-> d.seq_variants + 1,
                                            product_id |-> product_id,
                                            size |-> size, color |-> color]}]

\* SELECT id FROM product_variants WHERE product_id = ? AND size = ? AND color = ?
VariantTaken(d, product_id, size, color) ==
    \E r \in d.product_variants :
        r.product_id = product_id /\ r.size = size /\ r.color = color

\* INSERT INTO inventory (product_variant_id, quantity, last_updated)
InsertInventory(d, v, quantity) ==
    [d EXCEPT !.inventory = Append(@, [product_variant_id |-> v, quantity |-> quantity])]

\* add_product, the loop over the variants
RECURSIVE AddVariantsLoop(_, _, _)
AddVariantsLoop(d, product_id, variants) ==
    IF variants = <<>> THEN [db |-> d, raised |-> FALSE]
    ELSE
      LET variant == Head(variants)
          e1 == Execute(d, InsertVariant(d, product_id, variant.size, variant.color),
                        VariantTaken(d, product_id, variant.size, variant.color)
                            \/ ~ProductExists(d, product_id))
      IN  IF e1.raised THEN e1
          ELSE
            LET variant_id == e1.db.seq_variants
                e2 == Execute(e1.db, InsertInventory(e1.db, variant_id, 0),
                              ~VariantExists(e1.db, variant_id))
            IN  IF e2.raised THEN e2
                ELSE AddVariantsLoop(e2.db, product_id, Tail(variants))

add_product(product, variants) ==
    LET e0 == Execute(db, InsertProduct(db, product),
                      CodeTaken(db, product.code) \/ CategoryMissing(db, product))
    IN  IF e0.raised THEN Raised(e0.db, "storage")
        ELSE
          LET product_id == e0.db.seq_products
              r == AddVariantsLoop(e0.db, product_id, variants)
          IN  IF r.raised THEN Raised(r.db, "storage")
              ELSE Returned(r.db, product_id)

\* an update that also resets the totals of the sales to the live price
UpdateProductRepricing(d, product) ==
    [d EXCEPT !.products =
                  {IF r.id = product.id
                   THEN [r EXCEPT !.code = product.code,
                                  !.category_id = product.category_id,
                                  !.price = product.price,
                                  !.discount_percent = product.discount_percent]
                   ELSE r : r \in @},
              !.sales = {[s EXCEPT !.total_amount = product.price] : s \in @}]

\* UPDATE products SET code = ?, ..., category_id = ?, price = ?,
\* discount_percent = ?, ... WHERE id = ?
UpdateProduct_Row(d, product) ==
    [d EXCEPT !.products =
                  {IF r.id = product.id
                   THEN [r EXCEPT !.code = product.code,
                                  !.category_id = product.category_id,
                                  !.price = product.price,
                                  !.discount_percent = product.discount_percent]
                   ELSE r : r \in @}]

\* code TEXT UNIQUE NOT NULL, category_id INTEGER NOT NULL with its FOREIGN KEY:
\* what the UPDATE of an existing row can violate
UpdateProductViolates(d, product) ==
    /\ ProductExists(d, product.id)
    /\ \/ CategoryMissing(d, product)
       \/ \E o \in d.products : o.id # product.id /\ o.code = product.code

\* update_product: fault = 1 makes the UPDATE raise sqlite3.Error
update_product(product, fault) ==
    LET e1 == Execute(db, UpdateProduct_Row(db, product),
                      fault = 1 \/ UpdateProductViolates(db, product))
    IN  IF e1.raised THEN Raised(e1.db, "storage")
        ELSE Returned(e1.db, NULL)

\* add_variant: fault = k makes the k-th INSERT raise sqlite3.Error
add_variant(product_id, size, color, inventory_quantity, fault) ==
    IF VariantTaken(db, product_id, size, color) THEN Raised(db, "duplicate")
    ELSE
      LET e1 == Execute(db, InsertVariant(db, product_id, size, color),
                        fault = 1 \/ ~ProductExists(db, product_id))
      IN  IF e1.raised THEN Raised(e1.db, "storage")
          ELSE
            LET variant_id == e1.db.seq_variants
                e2 == Execute(e1.db, InsertInventory(e1.db, variant_id, inventory_quantity),
                              fault = 2 \/ ~VariantExists(e1.db, variant_id))
            IN  IF e2.raised THEN Raised(e2.db, "storage")
                ELSE Returned(e2.db, variant_id)

\* SELECT id FROM product_variants
\* WHERE product_id = ? AND size = ? AND color = ? AND id != ?
OtherVariantTaken(d, variant) ==
    \E r \in d.product_variants :
        /\ r.product_id = variant.product_id
        /\ r.size = variant.size /\ r.color = variant.color
        /\ r.id # variant.id

\* UPDATE product_variants SET size = ?, color = ? WHERE id = ?
UpdateVariant_Row(d, variant) ==
    [d EXCEPT !.product_variants =
        {IF r.id = variant.id
         THEN [r EXCEPT !.size = variant.size, !.color = variant.color]
         ELSE r : r \in @}]

\* UNIQUE(product_id, size, color): the UPDATE would leave two rows with one key
UniqueViolated(d, variant) ==
    \E r \in d.product_variants, o \in d.product_variants :
        /\ r.id = variant.id /\ o.id # variant.id
        /\ o.product_id = r.product_id
        /\ o.size = variant.size /\ o.color = variant.color

\* update_variant(variant): the duplicate check reads variant.product_id, the
\* UPDATE finds the row by variant.id alone
update_variant(variant, fault) ==
    IF OtherVariantTaken(db, variant) THEN Raised(db, "duplicate")
    ELSE
      LET e1 == Execute(db, UpdateVariant_Row(db, variant),
                        fault = 1 \/ UniqueViolated(db, variant))
      IN  IF e1.raised THEN Raised(e1.db, "storage")
          ELSE Returned(e1.db, NULL)

\* SELECT COUNT(*) FROM sale_items WHERE product_variant_id = ?
SoldCount(d, v) ==
    BagCardinality(Where(d.sale_items,
                         {si \in DOMAIN d.sale_items : si.product_variant_id = v}))

\* inventory_transactions: FOREIGN KEY (product_variant_id) ... ON DELETE RESTRICT;
\* sale_items: the same.  A variant row that either table refers to cannot go.
Restricted(d, v) ==
    \/ \E si \in DOMAIN d.sale_items : si.product_variant_id = v
    \/ \E t \in DOMAIN d.inventory_transactions : t.product_variant_id = v

VariantsOf(d, product_id) == {r.id : r \in {x \in d.product_variants : x.product_id = product_id}}

\* DELETE FROM inventory WHERE product_variant_id = ?
DeleteInventory(d, v) ==
    [d EXCEPT !.inventory = SelectSeq(@, LAMBDA r : r.product_variant_id # v)]

\* DELETE FROM product_variants WHERE id = ?  (inventory: ON DELETE CASCADE)
DeleteVariant_Row(d, v) ==
    [d EXCEPT !.product_variants = {r \in @ : r.id # v},
              !.inventory = SelectSeq(@, LAMBDA r : r.product_variant_id # v)]

\* a delete that stops at the variants and leaves their Inventory rows
DeleteProductKeepsInventory(d, product_id) ==
    [d EXCEPT !.products = {r \in @ : r.id # product_id},
              !.product_variants = {r \in @ : r.product_id # product_id}]

\* DELETE FROM products WHERE id = ?  (product_variants: ON DELETE CASCADE, and
\* from there inventory)
DeleteProduct_Row(d, product_id) ==
    [d EXCEPT !.products = {r \in @ : r.id # product_id},
              !.product_variants = {r \in @ : r.product_id # product_id},
              !.inventory = SelectSeq(@, LAMBDA r :
                                ~(r.product_variant_id \in VariantsOf(d, product_id)))]

\* delete_product: fault = 1 makes the DELETE raise sqlite3.Error
delete_product(product_id, fault) ==
    LET count == SumOver([v \in VariantsOf(db, product_id) |-> SoldCount(db, v)])
    IN  IF count > 0 THEN Raised(db, "in_use")
        ELSE
          LET e1 == Execute(db, DeleteProduct_Row(db, product_id),
                            fault = 1 \/ \E v \in VariantsOf(db, product_id) :
                                             Restricted(db, v))
          IN  IF e1.raised THEN Raised(e1.db, "storage")
              ELSE Returned(e1.db, NULL)

\* delete_variant: fault = k makes the k-th DELETE raise sqlite3.Error
delete_variant(variant_id, fault) ==
    IF SoldCount(db, variant_id) > 0 THEN Raised(db, "in_use")
    ELSE
      LET e1 == Execute(db, DeleteInventory(db, variant_id), fault = 1)
      IN  IF e1.raised THEN Raised(e1.db, "storage")
          ELSE
            LET e2 == Execute(e1.db, DeleteVariant_Row(e1.db, variant_id),
                              fault = 2 \/ Restricted(e1.db, variant_id))
            IN  IF e2.raised THEN Raised(e2.db, "storage")
                ELSE Returned(e2.db, NULL)

\* add_category: INSERT INTO categories; categories.name is UNIQUE
add_category(name, fault) ==
    LET e1 == Execute(db, InsertCategory(db, name), fault = 1 \/ NameTaken(db, name))
    IN  IF e1.raised THEN Raised(e1.db, "storage")
        ELSE Returned(e1.db, e1.db.seq_categories)

\* UPDATE categories SET name = ?, description = ? WHERE id = ?
UpdateCategory_Row(d, category) ==
    [d EXCEPT !.categories =
        {IF c.id = category.id THEN [c EXCEPT !.name = category.name] ELSE c : c \in @}]

\* update_category: the UPDATE of an existing row raises when another row has the name
update_category(category, fault) ==
    LET e1 == Execute(db, UpdateCategory_Row(db, category),
                      fault = 1 \/ \E c \in db.categories, o \in db.categories :
                                      /\ c.id = category.id /\ o.id # category.id
                                      /\ o.name = category.name)
    IN  IF e1.raised THEN Raised(e1.db, "storage")
        ELSE Returned(e1.db, NULL)

\* SELECT COUNT(*) FROM products WHERE category_id = ?
ProductsOfCategory(d, category_id) == {p \in d.products : p.category_id = category_id}

\* DELETE FROM categories WHERE id = ?
DeleteCategory_Row(d, category_id) ==
    [d EXCEPT !.categories = {c \in @ : c.id # category_id}]

delete_category(category_id, fault) ==
    IF ProductsOfCategory(db, category_id) # {} THEN Raised(db, "in_use")
    ELSE
      LET e1 == Execute(db, DeleteCategory_Row(db, category_id), fault = 1)
      IN  IF e1.raised THEN Raised(e1.db, "storage")
          ELSE Returned(e1.db, NULL)

(***************************************************************************)
(* CustomerController                                                      *)
(***************************************************************************)
\* SELECT id FROM customers WHERE email = ?
EmailTaken(d, email) == \E c \in d.customers : c.email = email

\* INSERT INTO customers; customers.email is UNIQUE (NULLs do not collide)
InsertCustomer(d, email) ==
    [d EXCEPT !.seq_customers = @ + 1,
              !.customers = @ \cup {[id |-> d.seq_customers + 1, email |-> email]}]

\* if customer.email: neither None nor the empty string
Truthy(email) == email # NoEmail /\ email # ""

\* add_customer: the duplicate check runs for a truthy email only; fault = 1
\* makes the INSERT raise sqlite3.Error, as the UNIQUE constraint does
add_customer(email, fault) ==
    IF Truthy(email) /\ EmailTaken(db, email) THEN Raised(db, "duplicate")
    ELSE
      LET e1 == Execute(db, InsertCustomer(db, email),
                        fault = 1 \/ (email # NoEmail /\ EmailTaken(db, email)))
      IN  IF e1.raised THEN Raised(e1.db, "storage")
          ELSE Returned(e1.db, e1.db.seq_customers)

\* SELECT id FROM customers WHERE email = ? AND id != ?
OtherEmailTaken(d, customer) ==
    \E c \in d.customers : c.email = customer.email /\ c.id # customer.id

\* UPDATE customers SET ..., email = ?, ... WHERE id = ?
UpdateCustomer_Row(d, customer) ==
    [d EXCEPT !.customers =
        {IF c.id = customer.id THEN [c EXCEPT !.email = customer.email] ELSE c : c \in @}]

\* update_customer: the duplicate check runs for a truthy email only; the UPDATE
\* of an existing row raises when another row has the (non-NULL) email
update_customer(customer, fault) ==
    IF Truthy(customer.email) /\ OtherEmailTaken(db, customer)
    THEN Raised(db, "duplicate")
    ELSE
      LET e1 == Execute(db, UpdateCustomer_Row(db, customer),
                        fault = 1 \/ ( /\ CustomerExists(db, customer.id)
                                       /\ customer.email # NoEmail
                                       /\ OtherEmailTaken(db, customer) ))
      IN  IF e1.raised THEN Raised(e1.db, "storage")
          ELSE Returned(e1.db, NULL)

\* SELECT COUNT(*) FROM sales WHERE customer_id = ?
SalesOfCustomer(d, customer_id) == {s \in d.sales : s.customer_id = customer_id}

\* a delete that takes the customer's sales with it
DeleteSalesOfCustomer(d, customer_id) ==
    [d EXCEPT !.sales = {s \in @ : s.customer_id # customer_id}]

\* UPDATE sales SET customer_id = NULL WHERE customer_id = ?
NullCustomer(d, customer_id) ==
    [d EXCEPT !.sales = {IF s.customer_id = customer_id
                         THEN [s EXCEPT !.customer_id = NULL] ELSE s : s \in @}]

\* DELETE FROM customers WHERE id = ?  (sales.customer_id: ON DELETE SET NULL)
DeleteCustomer_Row(d, customer_id) ==
    [d EXCEPT !.customers = {c \in @ : c.id # customer_id},
              !.sales = {IF s.customer_id = customer_id
                         THEN [s EXCEPT !.customer_id = NULL] ELSE s : s \in @}]

\* delete_customer: fault = k makes the k-th write statement raise sqlite3.Error
delete_customer(customer_id, fault) ==
    LET count == Cardinality(SalesOfCustomer(db, customer_id))
        e1 == IF count > 0
              THEN Execute(db, NullCustomer(db, customer_id), fault = 1)
              ELSE [db |-> db, raised |-> FALSE]
        n == IF count > 0 THEN 1 ELSE 0
    IN  IF e1.raised THEN Raised(e1.db, "storage")
        ELSE
          LET e2 == Execute(e1.db, DeleteCustomer_Row(e1.db, customer_id), fault = n + 1)
          IN  IF e2.raised THEN Raised(e2.db, "storage")
              ELSE Returned(e2.db, NULL)

(***************************************************************************)
(* models/sale.py: the Sale and SaleItem objects a caller hands to         *)
(* create_sale.                                                            *)
(***************************************************************************)
\* SaleItem.calculate_subtotal:
\* quantity * unit_price * (1 - discount_percent / 100)
calculate_subtotal(quantity, unit_price, discount_percent) ==
    (quantity * unit_price * (Percent - discount_percent)) \div Percent

\* SaleItem(product_variant_id, quantity, unit_price, discount_percent): no
\* subtotal given, so the constructor calculates it
SaleItem(product_variant_id, quantity, unit_price, discount_percent) ==
    [product_variant_id |-> product_variant_id, quantity |-> quantity,
     unit_price |-> unit_price, discount_percent |-> discount_percent,
     subtotal |-> calculate_subtotal(quantity, unit_price, discount_percent)]

\* SaleItem.recalculate_subtotal
recalculate_subtotal(item) ==
    [item EXCEPT !.subtotal =
        calculate_subtotal(item.quantity, item.unit_price, item.discount_percent)]

\* Sale(customer_id) with its items assigned: total_amount is the default 0.0
Sale(customer_id, items) ==
    [customer_id |-> customer_id, total_amount |-> 0, items |-> items]

RECURSIVE SumSubtotals(_)
SumSubtotals(items) ==
    IF items = <<>> THEN 0 ELSE Head(items).subtotal + SumSubtotals(Tail(items))

\* Sale.recalculate_total
recalculate_total(sale) == [sale EXCEPT !.total_amount = SumSubtotals(sale.items)]

\* an add_item that appends whatever the list holds
add_item_appending(sale, sale_item) ==
    [sale |-> recalculate_total([sale EXCEPT !.items = Append(@, sale_item)]),
     ret |-> TRUE]

\* Sale.add_item: the first item of the same variant takes the quantity and
\* recalculates its subtotal; without one the item is appended
add_item(sale, sale_item) ==
    LET same == {i \in DOMAIN sale.items :
                    sale.items[i].product_variant_id = sale_item.product_variant_id}
    IN  IF same # {}
        THEN LET i == CHOOSE j \in same : \A k \in same : j <= k
                 item == [sale.items[i] EXCEPT !.quantity = @ + sale_item.quantity]
             IN  [sale |-> recalculate_total(
                               [sale EXCEPT !.items[i] = recalculate_subtotal(item)]),
                  ret |-> TRUE]
        ELSE [sale |-> recalculate_total([sale EXCEPT !.items = Append(@, sale_item)]),
              ret |-> TRUE]

\* Sale.remove_item: item_index counts from 0
remove_item(sale, item_index) ==
    IF 0 <= item_index /\ item_index < Len(sale.items)
    THEN [sale |-> recalculate_total(
                      [sale EXCEPT !.items =
                          SubSeq(@, 1, item_index) \o SubSeq(@, item_index + 2, Len(@))]),
          ret |-> TRUE]
    ELSE [sale |-> sale, ret |-> FALSE]

(***************************************************************************)
(* Product and SaleView: the line the sale dialog builds.                  *)
(***************************************************************************)
\* Product.is_discount_active: in_dates is what the comparison of now with
\* the discount dates gives, TRUE when no date is set
is_discount_active(product, in_dates) ==
    IF product.discount_percent <= 0 THEN FALSE ELSE in_dates

\* Product.get_current_price
get_current_price(product, in_dates) ==
    IF is_discount_active(product, in_dates)
    THEN (product.price * (Percent - product.discount_percent)) \div Percent
    ELSE product.price

\* add_to_sale of the dialog: the SaleItem it creates
DialogItem(product, product_variant_id, quantity, in_dates) ==
    LET current_price == get_current_price(product, in_dates)
    IN  SaleItem(product_variant_id, quantity, current_price,
                 IF is_discount_active(product, in_dates)
                 THEN product.discount_percent ELSE 0)

\* SaleView.add_item_to_sale and update_sale_totals: the view's list of items
\* takes the item as Sale.add_item does, and the total is set on the Sale
add_item_to_sale(sale, sale_item) == add_item(sale, sale_item).sale

(***************************************************************************)
(* SaleController                                                          *)
(***************************************************************************)
\* a pre-validation that looks at the first item only
ValidateFirstItem(d, items) ==
    IF items = <<>> THEN "ok"
    ELSE IF ~HasInventory(d, Head(items).product_variant_id) THEN "not_found"
    ELSE IF Quantity(d, Head(items).product_variant_id) < Head(items).quantity
         THEN "insufficient"
    ELSE "ok"

\* create_sale, the pre-validation loop: "ok", or why the first failing item fails
RECURSIVE ValidateItems(_, _)
ValidateItems(d, items) ==
    IF items = <<>> THEN "ok"
    ELSE
      LET item == Head(items)
      IN  IF ~HasInventory(d, item.product_variant_id) THEN "not_found"
          ELSE IF Quantity(d, item.product_variant_id) < item.quantity THEN "insufficient"
          ELSE ValidateItems(d, Tail(items))

\* create_sale, the loop that inserts the items and debits the stock; n write
\* statements of the call have been executed before the loop body runs
RECURSIVE SaleItemsLoop(_, _, _, _, _)
SaleItemsLoop(d, items, sale_id, fault, n) ==
    IF items = <<>> THEN [db |-> d, raised |-> FALSE]
    ELSE
      LET item == Head(items)
          v == item.product_variant_id
          e1 == Execute(d, InsertSaleItem(d, sale_id, item),
                        fault = n + 1 \/ ~VariantExists(d, v))
      IN  IF e1.raised THEN e1
          ELSE IF ~HasInventory(e1.db, v) THEN [db |-> e1.db, raised |-> TRUE]
          ELSE
            LET new_quantity == Quantity(e1.db, v) - item.quantity
                e2 == Execute(e1.db, UpdateInventoryRow(e1.db, v, new_quantity),
                              fault = n + 2)
            IN  IF e2.raised THEN e2
                ELSE
                  LET e3 == Execute(e2.db,
                                    InsertTransaction(e2.db, v, 0 - item.quantity, SALE, sale_id),
                                    fault = n + 3)
                  IN  IF e3.raised THEN e3
                      ELSE SaleItemsLoop(e3.db, Tail(items), sale_id, fault, n + 3)

create_sale(sale, fault) ==
    LET valid == ValidateItems(db, sale.items)
    IN  IF valid # "ok" THEN Raised(db, valid)
        ELSE
          LET e0 == Execute(db, InsertSale(db, sale),
                            fault = 1 \/ ( /\ sale.customer_id # NULL
                                           /\ ~CustomerExists(db, sale.customer_id) ))
          IN  IF e0.raised THEN Raised(e0.db, "storage")
              ELSE
                LET sale_id == e0.db.seq_sales
                    r == SaleItemsLoop(e0.db, sale.items, sale_id, fault, 1)
                IN  IF r.raised THEN Raised(r.db, "storage")
                    ELSE Returned(r.db, sale_id)

\* a lookup that finds a sale whatever the id
SaleAlwaysFound(d, sale_id) == TRUE

\* get_sale: the Sale row, or none
SaleExists(d, sale_id) == \E s \in d.sales : s.id = sale_id

\* get_sale: sale_items JOIN product_variants JOIN products WHERE sale_id = ?
SaleItemsOf(d, sale_id) ==
    Where(d.sale_items,
          {si \in DOMAIN d.sale_items :
              /\ si.sale_id = sale_id
              /\ \E r \in d.product_variants :
                    /\ r.id = si.product_variant_id
                    /\ ProductExists(d, r.product_id)})

\* get_sale: None, or the Sale object with the items the join returns
get_sale(sale_id, fault) ==
    LET e1 == Select(db, fault = 1)
    IN  IF e1.raised THEN QueryRaised(e1.db)
        ELSE IF ~SaleExists(e1.db, sale_id) THEN Fetched(e1.db, <<>>)
        ELSE
          LET sale == CHOOSE x \in e1.db.sales : x.id = sale_id
              e2 == Select(e1.db, fault = 2)
          IN  IF e2.raised THEN QueryRaised(e2.db)
              ELSE Fetched(e2.db, <<[id |-> sale.id, customer_id |-> sale.customer_id,
                                     total_amount |-> sale.total_amount,
                                     items |-> SaleItemsOf(e2.db, sale_id)]>>)

\* get_all_sales: the Sale objects, without items
get_all_sales(fault) ==
    LET e1 == Select(db, fault = 1)
    IN  IF e1.raised THEN QueryRaised(e1.db)
        ELSE Fetched(e1.db, e1.db.sales)

\* DELETE FROM sale_items WHERE sale_id = ?
DeleteSaleItems(d, sale_id) ==
    [d EXCEPT !.sale_items = Where(@, {si \in DOMAIN @ : si.sale_id # sale_id})]

\* a delete that removes the items and leaves the Sale row
DeleteSaleKeepsRow(d, sale_id) ==
    [d EXCEPT !.sale_items = Where(@, {si \in DOMAIN @ : si.sale_id # sale_id})]

\* DELETE FROM sales WHERE id = ?  (sale_items: ON DELETE CASCADE)
DeleteSale(d, sale_id) ==
    [d EXCEPT !.sales = {s \in @ : s.id # sale_id},
              !.sale_items = Where(@, {si \in DOMAIN @ : si.sale_id # sale_id})]

\* cancel_sale, the loop that credits the stock back, one fetched item at a time
RECURSIVE ReturnItemsLoop(_, _, _, _, _)
ReturnItemsLoop(d, items, sale_id, fault, n) ==
    IF DOMAIN items = {} THEN [db |-> d, raised |-> FALSE, n |-> n]
    ELSE
      LET item == CHOOSE x \in DOMAIN items : TRUE
          v == item.product_variant_id
      IN  IF ~HasInventory(d, v) THEN [db |-> d, raised |-> TRUE, n |-> n]
          ELSE
            LET new_quantity == Quantity(d, v) + item.quantity
                e1 == Execute(d, UpdateInventoryRow(d, v, new_quantity), fault = n + 1)
            IN  IF e1.raised THEN [db |-> e1.db, raised |-> TRUE, n |-> n]
                ELSE
                  LET e2 == Execute(e1.db,
                                    InsertTransaction(e1.db, v, item.quantity, RETURN, sale_id),
                                    fault = n + 2 \/ ~VariantExists(e1.db, v))
                  IN  IF e2.raised THEN [db |-> e2.db, raised |-> TRUE, n |-> n]
                      ELSE ReturnItemsLoop(e2.db, items (-) SetToBag({item}), sale_id,
                                           fault, n + 2)

cancel_sale(sale_id, fault) ==
    IF ~SaleExists(db, sale_id) THEN Raised(db, "not_found")
    ELSE
      LET r == ReturnItemsLoop(db, SaleItemsOf(db, sale_id), sale_id, fault, 0)
      IN  IF r.raised THEN Raised(r.db, "storage")
          ELSE
            LET e1 == Execute(r.db, DeleteSaleItems(r.db, sale_id), fault = r.n + 1)
            IN  IF e1.raised THEN Raised(e1.db, "storage")
                ELSE
                  LET e2 == Execute(e1.db, DeleteSale(e1.db, sale_id), fault = r.n + 2)
                  IN  IF e2.raised THEN Raised(e2.db, "storage")
                      ELSE Returned(e2.db, NULL)

(***************************************************************************)
(* The last call, as the claims read it.                                   *)
(***************************************************************************)
NoCall ==
    [op |-> "init", ok |-> TRUE, ret |-> NULL, error |-> "none",
     variant |-> NULL, quantity |-> 0, type |-> "none", ref |-> NULL,
     items |-> <<>>, sale_id |-> NULL, fault |-> 0,
     product_id |-> NULL, code |-> "none", size |-> "none", color |-> "none",
     variants |-> <<>>, customer_id |-> NULL, total_amount |-> 0, email |-> "none",
     category_id |-> NULL, result |-> <<>>, again |-> FALSE,
     price |-> 0, discount_percent |-> 0, name |-> "none", index |-> 0,
     active |-> FALSE]

Outcome(call, out) ==
    [call EXCEPT !.ok = out.ok, !.ret = out.ret, !.error = out.error]

\* rows written through update_inventory (create_sale and cancel_sale write
\* SALE and RETURN rows themselves)
ManualRows(d) ==
    Where(d.inventory_transactions,
          {t \in DOMAIN d.inventory_transactions :
              t.transaction_type \in {PURCHASE, ADJUSTMENT}})

WithinBounds(d) ==
    /\ BagCardinality(ManualRows(d)) <= MaxManual
    /\ d.seq_products <= MaxProducts
    /\ d.seq_variants <= MaxVariants
    /\ d.seq_sales <= MaxSales
    /\ d.seq_customers <= MaxCustomers
    /\ d.seq_categories <= MaxCategories

Apply(call, out) ==
    /\ WithinBounds(out.db)
    /\ db' = out.db
    /\ disk' = out.disk
    /\ pre' = db
    /\ last' = Outcome(call, out)
    /\ current_sale' = current_sale

VariantIds == 1..MaxVariants
UpdateKinds == {[type |-> PURCHASE, ref |-> 1], [type |-> ADJUSTMENT, ref |-> NULL]}

UpdateInventory ==
    \E v \in VariantIds, q \in {-1, MaxQty}, k \in UpdateKinds, fault \in 0..2 :
        /\ fault > 0 => HasInventory(db, v)
        /\ Apply([NoCall EXCEPT !.op = "update_inventory", !.variant = v, !.quantity = q,
                                !.type = k.type, !.ref = k.ref, !.fault = fault],
                 update_inventory(v, q, k.type, k.ref, fault))

AdjustInventory ==
    \E v \in VariantIds, delta \in {-MaxQty, -1, 1}, fault \in 0..2 :
        /\ fault > 0 => HasInventory(db, v) /\ Quantity(db, v) + delta >= 0
        /\ Apply([NoCall EXCEPT !.op = "adjust_inventory", !.variant = v,
                                !.quantity = delta, !.fault = fault],
                 adjust_inventory(v, delta, fault))

VariantSpecs == [size : Sizes, color : Colors]
VariantLists == {<<>>} \cup {<<a>> : a \in VariantSpecs}
                       \cup {<<a, b>> : a \in VariantSpecs, b \in VariantSpecs}

\* Product objects: a default category, or none
AddProduct ==
    \E code \in Codes, category_id \in {1, NULL}, variants \in VariantLists :
        /\ category_id = NULL => ~CodeTaken(db, code)
        /\ Apply([NoCall EXCEPT !.op = "add_product", !.code = code,
                                !.category_id = category_id, !.variants = variants,
                                !.price = Money(UnitPrice)],
                 add_product([code |-> code, category_id |-> category_id,
                              price |-> Money(UnitPrice), discount_percent |-> 0],
                             variants))

AddVariant ==
    \E product_id \in 1..MaxProducts, size \in Sizes, color \in Colors,
       inventory_quantity \in {0, 1}, fault \in 0..2 :
        /\ fault > 0 => /\ inventory_quantity = 0
                        /\ ProductExists(db, product_id)
                        /\ ~VariantTaken(db, product_id, size, color)
        /\ Apply([NoCall EXCEPT !.op = "add_variant", !.product_id = product_id,
                                !.size = size, !.color = color,
                                !.quantity = inventory_quantity, !.fault = fault],
                 add_variant(product_id, size, color, inventory_quantity, fault))

\* Product objects with the id of a row: the price and the discount change
UpdateProduct ==
    \E product_id \in 1..MaxProducts, code \in Codes, category_id \in {1, NULL},
       price \in Prices, discount_percent \in Discounts, fault \in 0..1 :
        /\ category_id = NULL => fault = 0 /\ price = Money(UnitPrice) /\ discount_percent = 0
        /\ Apply([NoCall EXCEPT !.op = "update_product", !.product_id = product_id,
                                !.code = code, !.category_id = category_id,
                                !.price = price, !.discount_percent = discount_percent,
                                !.fault = fault],
                 update_product([id |-> product_id, code |-> code,
                                 category_id |-> category_id, price |-> price,
                                 discount_percent |-> discount_percent], fault))

SaleItems == {SaleItem(v, q, Money(UnitPrice), 0) : v \in VariantIds, q \in 1..MaxQty}
ItemLists == UNION {[1..n -> SaleItems] : n \in 0..MaxItems}
CustomerIds == 1..MaxCustomers

\* Sale objects: the total is the one recalculate_total leaves, or the
\* constructor's default when the items were assigned without it
CreateSale ==
    \E items \in ItemLists :
        LET valid == ValidateItems(db, items) = "ok"
        IN  \E customer_id \in (IF valid THEN {NULL} \cup CustomerIds ELSE {NULL}),
               recalculated \in (IF valid /\ items # <<>> THEN BOOLEAN ELSE {TRUE}),
               fault \in 0..(IF valid THEN 1 + 3 * Len(items) ELSE 0) :
                LET sale == IF recalculated THEN recalculate_total(Sale(customer_id, items))
                                            ELSE Sale(customer_id, items)
                IN  /\ fault > 0 => customer_id = NULL
                    /\ ~recalculated => fault = 0
                    /\ Apply([NoCall EXCEPT !.op = "create_sale", !.items = items,
                                            !.fault = fault,
                                            !.customer_id = customer_id,
                                            !.total_amount = sale.total_amount],
                             create_sale(sale, fault))

CancelSale ==
    \E sale_id \in 1..MaxSales, fault \in 0..(2 + 2 * MaxItems) :
        /\ fault > 0 => /\ SaleExists(db, sale_id)
                        /\ fault <= 2 + 2 * BagCardinality(SaleItemsOf(db, sale_id))
        /\ Apply([NoCall EXCEPT !.op = "cancel_sale", !.sale_id = sale_id, !.fault = fault],
                 cancel_sale(sale_id, fault))

\* create_sale in a store that hands out one sale id
CreateFirstSale == CreateSale /\ db'.seq_sales <= OneSale

\* the queries: again says that the call repeats the previous call
GetInventory ==
    \E v \in VariantIds, fault \in 0..1 :
        LET out == get_inventory(v, fault)
        IN  Apply([NoCall EXCEPT !.op = "get_inventory", !.variant = v, !.fault = fault,
                                 !.result = out.result,
                                 !.again = ( /\ last.op = "get_inventory" /\ last.ok
                                             /\ last.variant = v )],
                  out)

GetLowStockItems ==
    \E threshold \in {1, 5}, fault \in 0..1 :
        LET out == get_low_stock_items(threshold, fault)
        IN  Apply([NoCall EXCEPT !.op = "get_low_stock_items", !.quantity = threshold,
                                 !.fault = fault, !.result = out.result],
                  out)

GetOutOfStockItems ==
    \E fault \in 0..1 :
        LET out == get_out_of_stock_items(fault)
        IN  Apply([NoCall EXCEPT !.op = "get_out_of_stock_items", !.fault = fault,
                                 !.result = out.result],
                  out)

GetSale ==
    \E sale_id \in 1..MaxSales, fault \in 0..2 :
        LET out == get_sale(sale_id, fault)
        IN  /\ fault = 2 => SaleExists(db, sale_id)
            /\ Apply([NoCall EXCEPT !.op = "get_sale", !.sale_id = sale_id,
                                    !.fault = fault, !.result = out.result],
                     out)

GetAllSales ==
    \E fault \in 0..1 :
        LET out == get_all_sales(fault)
        IN  Apply([NoCall EXCEPT !.op = "get_all_sales", !.fault = fault,
                                 !.result = out.result],
                  out)

\* ProductVariant objects: product_id is the parent's id, or the constructor's
\* default None
UpdateVariant ==
    \E id \in VariantIds, product_id \in {NULL} \cup 1..MaxProducts,
       size \in Sizes, color \in Colors, fault \in 0..1 :
        LET variant == [id |-> id, product_id |-> product_id,
                        size |-> size, color |-> color]
        IN  /\ fault > 0 => ~OtherVariantTaken(db, variant) /\ ~UniqueViolated(db, variant)
            /\ Apply([NoCall EXCEPT !.op = "update_variant", !.variant = id,
                                    !.product_id = product_id, !.size = size,
                                    !.color = color, !.fault = fault],
                     update_variant(variant, fault))

AddCustomer ==
    \E email \in Emails, fault \in 0..1 :
        /\ fault > 0 => email = NoEmail \/ ~EmailTaken(db, email)
        /\ Apply([NoCall EXCEPT !.op = "add_customer", !.email = email, !.fault = fault],
                 add_customer(email, fault))

UpdateCustomer ==
    \E customer_id \in CustomerIds, email \in Emails, fault \in 0..1 :
        LET customer == [id |-> customer_id, email |-> email]
        IN  /\ fault > 0 => ~(email # NoEmail /\ OtherEmailTaken(db, customer))
            /\ Apply([NoCall EXCEPT !.op = "update_customer",
                                    !.customer_id = customer_id, !.email = email,
                                    !.fault = fault],
                     update_customer(customer, fault))

\* add_customer in a store that hands out one customer id
AddFirstCustomer == AddCustomer /\ db'.seq_customers <= OneCustomer

\* a call on the Sale object: the tables are not involved
ApplySale(call, out) ==
    /\ current_sale' = out.sale
    /\ last' = [call EXCEPT !.ret = out.ret]
    /\ UNCHANGED <<db, disk, pre>>

\* SaleItem objects of any variant, price and discount; a line holds at most
\* MaxLine units
AddItem ==
    \E v \in VariantIds, q \in 1..MaxQty, unit_price \in Prices,
       discount_percent \in Discounts :
        LET sale_item == SaleItem(v, q, unit_price, discount_percent)
            out == add_item(current_sale, sale_item)
        IN  /\ \A i \in DOMAIN out.sale.items : out.sale.items[i].quantity <= MaxLine
            /\ ApplySale([NoCall EXCEPT !.op = "add_item", !.variant = v,
                                        !.quantity = q, !.price = unit_price,
                                        !.discount_percent = discount_percent],
                         out)

RemoveItem ==
    \E item_index \in -1..MaxVariants :
        ApplySale([NoCall EXCEPT !.op = "remove_item", !.index = item_index],
                  remove_item(current_sale, item_index))

\* the dialog of a product that has a variant in stock: the variant chosen, a
\* quantity the stock covers, and the clock inside or outside the discount dates
AddToSale ==
    \E product \in db.products, selected_variant \in db.product_variants,
       quantity \in 1..MaxQty, in_dates \in BOOLEAN :
        LET sale_item == DialogItem(product, selected_variant.id, quantity, in_dates)
            sale == add_item_to_sale(current_sale, sale_item)
        IN  /\ selected_variant.product_id = product.id
            /\ HasInventory(db, selected_variant.id)
            /\ Quantity(db, selected_variant.id) > 0
            /\ quantity <= Quantity(db, selected_variant.id)
            /\ \A i \in DOMAIN sale.items : sale.items[i].quantity <= MaxLine
            /\ ApplySale([NoCall EXCEPT !.op = "add_to_sale",
                                        !.product_id = product.id,
                                        !.variant = selected_variant.id,
                                        !.quantity = quantity,
                                        !.price = product.price,
                                        !.discount_percent = product.discount_percent,
                                        !.active = is_discount_active(product, in_dates),
                                        !.items = <<sale_item>>],
                         [sale |-> sale, ret |-> NULL])

DeleteCustomer ==
    \E customer_id \in CustomerIds, fault \in 0..2 :
        /\ fault <= 1 + (IF SalesOfCustomer(db, customer_id) # {} THEN 1 ELSE 0)
        /\ Apply([NoCall EXCEPT !.op = "delete_customer", !.customer_id = customer_id,
                                !.fault = fault],
                 delete_customer(customer_id, fault))

\* setup_database runs at every start of the program; fault = 3 makes the third
\* INSERT OR IGNORE raise
SetupDatabase ==
    \E fault \in {0, 3} :
        Apply([NoCall EXCEPT !.op = "setup_database", !.fault = fault,
                             !.again = (last.op = "setup_database" /\ last.ok)],
              setup_database(fault))

AddCategory ==
    \E name \in CategoryNames, fault \in 0..1 :
        /\ fault > 0 => ~NameTaken(db, name)
        /\ Apply([NoCall EXCEPT !.op = "add_category", !.name = name, !.fault = fault],
                 add_category(name, fault))

UpdateCategory ==
    \E id \in CategoryIds, name \in CategoryNames :
        Apply([NoCall EXCEPT !.op = "update_category", !.category_id = id, !.name = name],
              update_category([id |-> id, name |-> name], 0))

DeleteCategory ==
    \E id \in CategoryIds, fault \in 0..1 :
        /\ fault > 0 => ProductsOfCategory(db, id) = {}
        /\ Apply([NoCall EXCEPT !.op = "delete_category", !.category_id = id,
                                !.fault = fault],
                 delete_category(id, fault))

DeleteProduct ==
    \E product_id \in 1..MaxProducts, fault \in 0..1 :
        /\ fault > 0 => /\ \A v \in VariantsOf(db, product_id) : ~Restricted(db, v)
        /\ Apply([NoCall EXCEPT !.op = "delete_product", !.product_id = product_id,
                                !.fault = fault],
                 delete_product(product_id, fault))

DeleteVariant ==
    \E v \in VariantIds, fault \in 0..2 :
        /\ fault > 0 => SoldCount(db, v) = 0
        /\ fault = 2 => ~Restricted(db, v)
        /\ Apply([NoCall EXCEPT !.op = "delete_variant", !.variant = v, !.fault = fault],
                 delete_variant(v, fault))

Init ==
    /\ db = EmptyDb
    /\ disk = EmptyDb
    /\ pre = EmptyDb
    /\ last = NoCall
    /\ current_sale = Sale(NULL, <<>>)

Next ==
    \/ AddProduct
    \/ AddVariant
    \/ UpdateInventory
    \/ AdjustInventory
    \/ CreateSale
    \/ CancelSale
    \/ UpdateProduct
    \/ UpdateVariant
    \/ DeleteVariant
    \/ DeleteProduct
    \/ AddCustomer
    \/ UpdateCustomer
    \/ DeleteCustomer
    \/ GetInventory
    \/ GetLowStockItems
    \/ GetOutOfStockItems
    \/ GetSale
    \/ GetAllSales
    \/ SetupDatabase
    \/ AddCategory
    \/ UpdateCategory
    \/ DeleteCategory
    \/ AddItem
    \/ RemoveItem
    \/ AddToSale

\* every modelled operation of the controllers and of the Sale object
Spec == Init /\ [][Next]_vars

\* the catalog and the inventory ledger: no sales
NextInventory ==
    \/ AddProduct
    \/ AddVariant
    \/ UpdateInventory
    \/ AdjustInventory

SpecInventory == Init /\ [][NextInventory]_vars

\* the sales engine: variants come from add_product, stock from adjust_inventory
NextSales ==
    \/ AddProduct
    \/ AdjustInventory
    \/ CreateFirstSale
    \/ CancelSale

SpecSales == Init /\ [][NextSales]_vars

\* the catalog with its deletions, next to the sales that block them
NextCatalog ==
    \/ AddProduct
    \/ AdjustInventory
    \/ CreateFirstSale
    \/ CancelSale
    \/ DeleteProduct
    \/ DeleteVariant

SpecCatalog == Init /\ [][NextCatalog]_vars

\* the queries next to the writes whose results they read
NextReads ==
    \/ AddProduct
    \/ AdjustInventory
    \/ CreateFirstSale
    \/ GetInventory
    \/ GetLowStockItems
    \/ GetOutOfStockItems
    \/ GetSale
    \/ GetAllSales

SpecReads == Init /\ [][NextReads]_vars

\* the variants of the catalog
NextVariants ==
    \/ AddProduct
    \/ AddVariant
    \/ UpdateVariant

SpecVariants == Init /\ [][NextVariants]_vars

\* customers and the sales that refer to them
NextCustomers ==
    \/ AddProduct
    \/ AdjustInventory
    \/ AddFirstCustomer
    \/ CreateFirstSale
    \/ DeleteCustomer

SpecCustomers == Init /\ [][NextCustomers]_vars

\* the variants and their Inventory rows: creation and deletion
NextVariantRows ==
    \/ AddProduct
    \/ AddVariant
    \/ DeleteVariant
    \/ DeleteProduct

SpecVariantRows == Init /\ [][NextVariantRows]_vars

\* the prices of the catalog next to the sales that froze them
NextPrices ==
    \/ AddProduct
    \/ AddVariant
    \/ UpdateProduct
    \/ CreateFirstSale

SpecPrices == Init /\ [][NextPrices]_vars

\* the categories, and setup_database run again at a later start
NextSetup ==
    \/ SetupDatabase
    \/ AddCategory
    \/ UpdateCategory
    \/ DeleteCategory
    \/ AddProduct

SpecSetup == Init /\ [][NextSetup]_vars

\* the customers and their emails
NextEmails ==
    \/ AddCustomer
    \/ UpdateCustomer
    \/ DeleteCustomer

SpecEmails == Init /\ [][NextEmails]_vars

\* a store small enough for every write operation to run next to every other:
\* one variant, one row of the ledger written through update_inventory, and
\* calls that name the ids this store hands out, sell one line and give a
\* customer an email of some length or none
SmallStore(d) ==
    /\ d.seq_variants <= OneVariant
    /\ BagCardinality(ManualRows(d)) <= OneManual

SmallCall(call) ==
    /\ call.variant <= OneVariant
    /\ call.sale_id <= OneSale
    /\ call.customer_id <= OneCustomer
    /\ call.email # ""
    /\ Len(call.items) <= OneLine
    /\ \A i \in DOMAIN call.items : call.items[i].product_variant_id <= OneVariant

InSmallStore == SmallStore(db') /\ SmallCall(last')

\* every write operation of the four controllers
NextWrites ==
    \/ AddProduct /\ InSmallStore
    \/ AddVariant /\ InSmallStore
    \/ UpdateVariant /\ InSmallStore
    \/ UpdateInventory /\ InSmallStore
    \/ AdjustInventory /\ InSmallStore
    \/ AddFirstCustomer /\ InSmallStore
    \/ CreateFirstSale /\ InSmallStore
    \/ CancelSale /\ InSmallStore
    \/ DeleteVariant /\ InSmallStore
    \/ DeleteProduct /\ InSmallStore
    \/ DeleteCustomer /\ InSmallStore

SpecWrites == Init /\ [][NextWrites]_vars

\* sales and cancellations in a store of one variant that hands out two sale ids
NextReturns ==
    \/ AddProduct /\ SmallStore(db')
    \/ AdjustInventory /\ SmallStore(db')
    \/ CreateSale
    \/ CancelSale

SpecReturns == Init /\ [][NextReturns]_vars

\* the Sale object on its own
NextSaleObject ==
    \/ AddItem
    \/ RemoveItem

SpecSaleObject == Init /\ [][NextSaleObject]_vars

\* the sale dialog over a catalog whose prices and discounts change
NextDialog ==
    \/ AddProduct /\ SmallStore(db')
    \/ AddVariant /\ SmallStore(db')
    \/ UpdateProduct
    \/ AddToSale

SpecDialog == Init /\ [][NextDialog]_vars

(***************************************************************************)
(* Vocabulary of the properties.                                           *)
(***************************************************************************)
\* signed sum of quantity_change over the ledger rows of variant v
LedgerSum(d, v) ==
    LET rows == Where(d.inventory_transactions,
                      {t \in DOMAIN d.inventory_transactions : t.product_variant_id = v})
    IN  SumOver([t \in DOMAIN rows |-> t.quantity_change * rows[t]])

\* total quantity the lines of a Sale object ask of variant v
RECURSIVE Requested(_, _)
Requested(items, v) ==
    IF items = <<>> THEN 0
    ELSE (IF Head(items).product_variant_id = v THEN Head(items).quantity ELSE 0)
         + Requested(Tail(items), v)

\* one ledger row per line of a Sale object
RECURSIVE LineRows(_, _, _, _)
LineRows(items, type, sale_id, sign) ==
    IF items = <<>> THEN EmptyBag
    ELSE SetToBag({[product_variant_id |-> Head(items).product_variant_id,
                    quantity_change |-> sign * Head(items).quantity,
                    transaction_type |-> type, reference_id |-> sale_id]})
         (+) LineRows(Tail(items), type, sale_id, sign)

\* the sale_items rows of a sale, and the ledger rows that return them
StoredItems(d, sale_id) ==
    Where(d.sale_items, {si \in DOMAIN d.sale_items : si.sale_id = sale_id})

\* the RETURN rows of the ledger that refer to a sale
ReturnsOf(d, sale_id) ==
    Where(d.inventory_transactions,
          {t \in DOMAIN d.inventory_transactions :
              t.reference_id = sale_id /\ t.transaction_type = RETURN})

ReturnRow(si) ==
    [product_variant_id |-> si.product_variant_id, quantity_change |-> si.quantity,
     transaction_type |-> RETURN, reference_id |-> si.sale_id]

ReturnRows(d, sale_id) ==
    LET src == StoredItems(d, sale_id)
    IN  [t \in {ReturnRow(si) : si \in DOMAIN src} |->
            src[CHOOSE si \in DOMAIN src : ReturnRow(si) = t]]

Returned_Quantity(d, sale_id, v) ==
    LET src == StoredItems(d, sale_id)
    IN  SumOver([si \in {x \in DOMAIN src : x.product_variant_id = v} |->
                    si.quantity * src[si]])

\* the call raised and neither the connection nor the committed tables changed
Untouched == ~last.ok /\ db = pre /\ disk = pre

\* every table but inventory and inventory_transactions is as before the call
CatalogAndSalesAsBefore ==
    /\ db.products = pre.products
    /\ db.product_variants = pre.product_variants
    /\ db.sales = pre.sales
    /\ db.sale_items = pre.sale_items

(***************************************************************************)
(* C1.  Ledger invariant: for every variant with an Inventory row, the     *)
(* quantity equals the signed sum of quantity_change over the variant's    *)
(* InventoryTransaction rows.  add_variant writes the caller's             *)
(* inventory_quantity into the new row without a transaction row, so the   *)
(* statement fails on the code.                                            *)
(***************************************************************************)
C1_LedgerInvariant ==
    \A i \in DOMAIN db.inventory :
        db.inventory[i].quantity = LedgerSum(db, db.inventory[i].product_variant_id)

(***************************************************************************)
(* C2.  create_sale pre-validation is all-or-nothing: when some line item  *)
(* has no Inventory row or asks for more than the current quantity, the    *)
(* call raises and every table is as before the call, also when earlier    *)
(* items passed.                                                           *)
(***************************************************************************)
C2_PreValidationAllOrNothing ==
    ( /\ last.op = "create_sale"
      /\ \E i \in DOMAIN last.items :
            \/ ~HasInventory(pre, last.items[i].product_variant_id)
            \/ last.items[i].quantity > Quantity(pre, last.items[i].product_variant_id) )
    => Untouched

\* a two-line sale whose first line passes validation and whose second asks too much
C2_Witness ==
    /\ last.op = "create_sale"
    /\ Len(last.items) = 2
    /\ HasInventory(pre, last.items[1].product_variant_id)
    /\ last.items[1].quantity <= Quantity(pre, last.items[1].product_variant_id)
    /\ HasInventory(pre, last.items[2].product_variant_id)
    /\ last.items[2].quantity > Quantity(pre, last.items[2].product_variant_id)
    /\ ~last.ok

(***************************************************************************)
(* C3.  create_sale is atomic under failure: when a write statement after  *)
(* the pre-validation fails (the Sale insert, a SaleItem insert, an        *)
(* inventory update, a transaction insert), the call raises one error and  *)
(* nothing it wrote survives.                                              *)
(***************************************************************************)
C3_CreateSaleAtomic ==
    (last.op = "create_sale" /\ last.fault > 0)
    => (Untouched /\ last.error = "storage")

\* the last statement of a two-line sale fails, after six writes
C3_Witness ==
    /\ last.op = "create_sale"
    /\ Len(last.items) = 2
    /\ last.fault = 7
    /\ ~last.ok

(***************************************************************************)
(* C4.  Round trip: a successful create_sale followed at once by a         *)
(* successful cancel_sale of the returned id restores every Inventory      *)
(* quantity to its value before the sale, leaves no Sale row and no        *)
(* SaleItem row of that id, and the ledger has gained one SALE and one     *)
(* RETURN row per line item.                                               *)
(***************************************************************************)
C4_RoundTrip ==
    [][ ( /\ last.op = "create_sale" /\ last.ok
          /\ last'.op = "cancel_sale" /\ last'.ok
          /\ last'.sale_id = last.ret )
        => ( /\ db'.inventory = pre.inventory
             /\ \A s \in db'.sales : s.id # last.ret
             /\ \A si \in DOMAIN db'.sale_items : si.sale_id # last.ret
             /\ db'.sales = pre.sales
             /\ db'.sale_items = pre.sale_items
             /\ db'.inventory_transactions =
                    pre.inventory_transactions
                    (+) LineRows(last.items, SALE, last.ret, -1)
                    (+) LineRows(last.items, RETURN, last.ret, 1)
             /\ disk' = db' ) ]_vars

\* a two-line sale has just been cancelled: its SALE rows were the only rows of that id
C4_Witness ==
    /\ last.op = "cancel_sale" /\ last.ok
    /\ BagCardinality(StoredItems(pre, last.sale_id)) = 2
    /\ BagCardinality(ReturnsOf(pre, last.sale_id)) = 0
    /\ BagCardinality(ReturnsOf(db, last.sale_id)) = 2

(***************************************************************************)
(* C5.  A successful create_sale returns the id of the new Sale row,       *)
(* lowers each variant's quantity by what the line items ask of it (rows   *)
(* of other variants are unchanged) and appends one SALE row per line item *)
(* with quantity_change = -quantity and reference_id = the new id.         *)
(***************************************************************************)
C5_CreateSaleEffect ==
    (last.op = "create_sale" /\ last.ok)
    => ( /\ last.ret = pre.seq_sales + 1
         /\ db.sales = pre.sales \cup {[id |-> last.ret,
                                         customer_id |-> last.customer_id,
                                         total_amount |-> last.total_amount]}
         /\ \A s \in pre.sales : s.id # last.ret
         /\ DOMAIN db.inventory = DOMAIN pre.inventory
         /\ \A i \in DOMAIN db.inventory :
               /\ db.inventory[i].product_variant_id = pre.inventory[i].product_variant_id
               /\ db.inventory[i].quantity =
                      pre.inventory[i].quantity
                      - Requested(last.items, pre.inventory[i].product_variant_id)
         /\ db.inventory_transactions =
                pre.inventory_transactions (+) LineRows(last.items, SALE, last.ret, -1)
         /\ disk = db )

\* a sale went through while another variant, not in the sale, has an Inventory row
C5_Witness ==
    /\ last.op = "create_sale" /\ last.ok
    /\ last.items # <<>>
    /\ \E i \in DOMAIN db.inventory :
          Requested(last.items, db.inventory[i].product_variant_id) = 0
    /\ \E i \in DOMAIN db.inventory :
          db.inventory[i].quantity < pre.inventory[i].quantity

(***************************************************************************)
(* C6.  Inventory.quantity is never negative.  update_inventory writes any *)
(* new_quantity it is given, and create_sale validates each line against   *)
(* the stock on its own, so the statement fails on the code.               *)
(***************************************************************************)
C6_QuantityNeverNegative ==
    \A i \in DOMAIN db.inventory : db.inventory[i].quantity >= 0

(***************************************************************************)
(* C7.  adjust_inventory(variant, delta): when current + delta < 0 it      *)
(* raises and leaves the quantity and the ledger unchanged; when           *)
(* current + delta >= 0 (and no statement fails) it sets the quantity to   *)
(* current + delta and appends one ADJUSTMENT row with quantity_change =   *)
(* delta.                                                                  *)
(***************************************************************************)
C7_AdjustInventory ==
    (last.op = "adjust_inventory" /\ HasInventory(pre, last.variant))
    => IF Quantity(pre, last.variant) + last.quantity < 0 \/ last.fault > 0
       THEN Untouched
       ELSE /\ last.ok
            /\ db.inventory =
                   [i \in DOMAIN pre.inventory |->
                       IF pre.inventory[i].product_variant_id = last.variant
                       THEN [pre.inventory[i] EXCEPT !.quantity = @ + last.quantity]
                       ELSE pre.inventory[i]]
            /\ db.inventory_transactions =
                   pre.inventory_transactions
                   (+) SetToBag({[product_variant_id |-> last.variant,
                                  quantity_change |-> last.quantity,
                                  transaction_type |-> ADJUSTMENT,
                                  reference_id |-> NULL]})
            /\ CatalogAndSalesAsBefore
            /\ disk = db

\* taking more than the stock a variant holds
C7_Witness ==
    /\ last.op = "adjust_inventory"
    /\ HasInventory(pre, last.variant)
    /\ Quantity(pre, last.variant) > 0
    /\ Quantity(pre, last.variant) + last.quantity < 0
    /\ ~last.ok

(***************************************************************************)
(* C8.  cancel_sale is all-or-nothing: either every line item's variant is *)
(* credited by the item's quantity, one RETURN row with reference_id = the *)
(* sale id is appended per line item and the SaleItem rows and the Sale    *)
(* row are deleted, or (a statement failed) nothing changed.               *)
(***************************************************************************)
C8_CancelSaleAllOrNothing ==
    (last.op = "cancel_sale" /\ \E s \in pre.sales : s.id = last.sale_id)
    => IF last.ok
       THEN /\ last.fault = 0
            /\ db.inventory =
                   [i \in DOMAIN pre.inventory |->
                       [pre.inventory[i] EXCEPT !.quantity =
                           @ + Returned_Quantity(pre, last.sale_id,
                                                 pre.inventory[i].product_variant_id)]]
            /\ db.inventory_transactions =
                   pre.inventory_transactions (+) ReturnRows(pre, last.sale_id)
            /\ db.sale_items =
                   Where(pre.sale_items,
                         {si \in DOMAIN pre.sale_items : si.sale_id # last.sale_id})
            /\ db.sales = {s \in pre.sales : s.id # last.sale_id}
            /\ disk = db
       ELSE /\ last.fault > 0
            /\ Untouched

\* the delete of the Sale row fails after the stock of two items was credited
C8_Witness ==
    /\ last.op = "cancel_sale"
    /\ BagCardinality(StoredItems(pre, last.sale_id)) = 2
    /\ last.fault = 6
    /\ ~last.ok

(***************************************************************************)
(* C9.  cancel_sale of an id with no Sale row (never created, or already   *)
(* cancelled) raises and leaves every table unchanged.                     *)
(***************************************************************************)
C9_CancelMissingSale ==
    (last.op = "cancel_sale" /\ \A s \in pre.sales : s.id # last.sale_id)
    => Untouched

\* cancelling a sale that was cancelled before
C9_Witness ==
    /\ last.op = "cancel_sale"
    /\ \A s \in pre.sales : s.id # last.sale_id
    /\ \E t \in DOMAIN pre.inventory_transactions :
          t.transaction_type = RETURN /\ t.reference_id = last.sale_id
    /\ ~last.ok

(***************************************************************************)
(* C10.  update_inventory on a variant with an Inventory row sets the      *)
(* quantity to new_quantity and appends one row with quantity_change =     *)
(* new_quantity - previous quantity and the given type and reference_id    *)
(* (unless a statement fails, and then nothing changes); on a variant with *)
(* no Inventory row it raises and changes nothing.                         *)
(***************************************************************************)
C10_UpdateInventory ==
    (last.op = "update_inventory")
    => IF ~HasInventory(pre, last.variant) \/ last.fault > 0
       THEN Untouched
       ELSE /\ last.ok
            /\ db.inventory =
                   [i \in DOMAIN pre.inventory |->
                       IF pre.inventory[i].product_variant_id = last.variant
                       THEN [pre.inventory[i] EXCEPT !.quantity = last.quantity]
                       ELSE pre.inventory[i]]
            /\ db.inventory_transactions =
                   pre.inventory_transactions
                   (+) SetToBag({[product_variant_id |-> last.variant,
                                  quantity_change |->
                                      last.quantity - Quantity(pre, last.variant),
                                  transaction_type |-> last.type,
                                  reference_id |-> last.ref]})
            /\ CatalogAndSalesAsBefore
            /\ disk = db

\* a purchase with a reference id that lowers the stock of a variant
C10_Witness ==
    /\ last.op = "update_inventory" /\ last.ok
    /\ last.ref # NULL
    /\ Quantity(pre, last.variant) > last.quantity
    /\ Quantity(db, last.variant) = last.quantity

(***************************************************************************)
(* C11.  For every Sale row persisted by create_sale, the stored           *)
(* total_amount equals the sum of the stored subtotals of the sale's       *)
(* SaleItem rows.  create_sale stores sale.total_amount and each           *)
(* item.subtotal as the caller's object carries them and never             *)
(* recalculates, so a Sale whose items were assigned without               *)
(* recalculate_total is stored with total_amount 0: the statement fails on *)
(* the code.                                                               *)
(***************************************************************************)
StoredSubtotals(d, sale_id) ==
    LET rows == StoredItems(d, sale_id)
    IN  SumOver([si \in DOMAIN rows |-> si.subtotal * rows[si]])

C11_TotalIsSumOfSubtotals ==
    \A s \in disk.sales : s.total_amount = StoredSubtotals(disk, s.id)

(***************************************************************************)
(* C12.  Every Sale row of a committed state owns at least one SaleItem    *)
(* row.  create_sale with an empty item list passes the validation loop,   *)
(* inserts the Sale row and commits, so the statement fails on the code.   *)
(***************************************************************************)
C12_SaleOwnsItems ==
    \A s \in disk.sales : BagCardinality(StoredItems(disk, s.id)) >= 1

(***************************************************************************)
(* C13.  delete_product on a product with a variant that a SaleItem refers *)
(* to raises and leaves products, variants and inventory unchanged; on a   *)
(* product with no such variant it succeeds and removes the product, its   *)
(* variants and their Inventory rows.  The ledger rows of a variant refer  *)
(* to it with ON DELETE RESTRICT and delete_product never removes them, so *)
(* the delete of a product whose variant has any inventory history raises: *)
(* the statement fails on the code.                                        *)
(***************************************************************************)
C13_DeleteProduct ==
    (last.op = "delete_product" /\ last.fault = 0 /\ ProductExists(pre, last.product_id))
    => IF \E v \in VariantsOf(pre, last.product_id) : SoldCount(pre, v) > 0
       THEN /\ ~last.ok
            /\ db.products = pre.products
            /\ db.product_variants = pre.product_variants
            /\ db.inventory = pre.inventory
       ELSE /\ last.ok
            /\ db.products = {r \in pre.products : r.id # last.product_id}
            /\ db.product_variants =
                   {r \in pre.product_variants : r.product_id # last.product_id}
            /\ db.inventory =
                   SelectSeq(pre.inventory,
                             LAMBDA r : r.product_variant_id
                                            \notin VariantsOf(pre, last.product_id))
            /\ disk = db

(***************************************************************************)
(* C14.  delete_variant on a variant that a SaleItem refers to raises and  *)
(* changes nothing; on a variant that no SaleItem refers to, whatever its  *)
(* history of adjustments or cancelled sales, it succeeds and removes the  *)
(* Inventory row and the ProductVariant row.  An adjustment or a cancelled *)
(* sale leaves ledger rows that refer to the variant with ON DELETE        *)
(* RESTRICT, the DELETE of the variant row raises and the call rolls back: *)
(* the statement fails on the code.                                        *)
(***************************************************************************)
C14_DeleteVariant ==
    (last.op = "delete_variant" /\ last.fault = 0 /\ VariantExists(pre, last.variant))
    => IF SoldCount(pre, last.variant) > 0
       THEN Untouched
       ELSE /\ last.ok
            /\ db.product_variants = {r \in pre.product_variants : r.id # last.variant}
            /\ db.inventory =
                   SelectSeq(pre.inventory, LAMBDA r : r.product_variant_id # last.variant)
            /\ disk = db

VariantsUnique(d) ==
    \A r \in d.product_variants, o \in d.product_variants :
        (r.product_id = o.product_id /\ r.size = o.size /\ r.color = o.color) => r = o

\* update_variant would leave two rows of one product with the same size and color
WouldCollide(d, id, size, color) ==
    \E r \in d.product_variants, o \in d.product_variants :
        /\ r.id = id /\ o.id # id
        /\ o.product_id = r.product_id /\ o.size = size /\ o.color = color

RaisedBeforeWriting ==
    /\ ~last.ok
    /\ last.error = "duplicate"
    /\ db.product_variants = pre.product_variants
    /\ db.inventory = pre.inventory
    /\ disk = pre

C16_VariantUniqueness ==
    /\ VariantsUnique(db)
    /\ ( /\ last.op = "add_variant"
          /\ VariantTaken(pre, last.product_id, last.size, last.color) )
       => RaisedBeforeWriting
    /\ ( /\ last.op = "update_variant"
          /\ WouldCollide(pre, last.variant, last.size, last.color) )
       => RaisedBeforeWriting

(***************************************************************************)
(* C17.  add_product(product, variants) is all-or-nothing: on success the  *)
(* Product, one ProductVariant per listed variant and one Inventory row    *)
(* with quantity 0 per variant exist; when an insert fails (duplicate      *)
(* product code, two listed variants with the same size and color, missing *)
(* category) no Product, ProductVariant or Inventory row of the call       *)
(* survives.                                                               *)
(***************************************************************************)
\* the variant rows and the inventory rows a successful add_product adds
NewVariants(first_id, product_id, variants) ==
    {[id |-> first_id + i, product_id |-> product_id,
      size |-> variants[i].size, color |-> variants[i].color] : i \in DOMAIN variants}

NewInventory(first_id, variants) ==
    [i \in DOMAIN variants |-> [product_variant_id |-> first_id + i, quantity |-> 0]]

C17_AddProductAllOrNothing ==
    (last.op = "add_product")
    => IF \/ CodeTaken(pre, last.code)
          \/ last.category_id \notin DefaultCategories
          \/ \E i \in DOMAIN last.variants, j \in DOMAIN last.variants :
                i # j /\ last.variants[i] = last.variants[j]
       THEN Untouched
       ELSE /\ last.ok
            /\ last.ret = pre.seq_products + 1
            /\ db.products = pre.products \cup {[id |-> last.ret, code |-> last.code,
                                                  category_id |-> last.category_id,
                                                  price |-> last.price,
                                                  discount_percent |-> 0]}
            /\ \A p \in pre.products : p.id # last.ret
            /\ db.product_variants =
                   pre.product_variants
                   \cup NewVariants(pre.seq_variants, last.ret, last.variants)
            /\ Cardinality(db.product_variants) =
                   Cardinality(pre.product_variants) + Len(last.variants)
            /\ db.inventory =
                   pre.inventory \o NewInventory(pre.seq_variants, last.variants)
            /\ disk = db

\* the second of two listed variants repeats the first: the product and the
\* first variant had been inserted when the call failed
C17_Witness ==
    /\ last.op = "add_product" /\ ~last.ok
    /\ ~CodeTaken(pre, last.code)
    /\ last.category_id \in DefaultCategories
    /\ Len(last.variants) = 2
    /\ last.variants[1] = last.variants[2]

(***************************************************************************)
(* C18.  A variant created with an initial quantity s > 0, add_variant     *)
(* with inventory_quantity = s followed by the adjust_inventory(variant,   *)
(* s) call the add-variant dialog makes, ends with quantity s and one      *)
(* ADJUSTMENT row with quantity_change = s.  add_variant already writes s  *)
(* into the new Inventory row and the adjustment adds s to it, so the      *)
(* variant ends with 2 * s: the statement fails on the code.               *)
(***************************************************************************)
LedgerOf(d, v) ==
    Where(d.inventory_transactions,
          {t \in DOMAIN d.inventory_transactions : t.product_variant_id = v})

C18_InitialQuantity ==
    [][ ( /\ last.op = "add_variant" /\ last.ok /\ last.quantity > 0
          /\ last'.op = "adjust_inventory" /\ last'.ok
          /\ last'.variant = last.ret
          /\ last'.quantity = last.quantity )
        => ( /\ Quantity(db', last.ret) = last.quantity
             /\ LedgerOf(db', last.ret) =
                    SetToBag({[product_variant_id |-> last.ret,
                               quantity_change |-> last.quantity,
                               transaction_type |-> ADJUSTMENT,
                               reference_id |-> NULL]}) ) ]_vars

(***************************************************************************)
(* C19.  Read-only operations do not change state: get_inventory,          *)
(* get_sale, get_all_sales and the stock projections leave every table     *)
(* unchanged (also when the query fails), and get_inventory called twice   *)
(* with no write in between returns the same quantity.                     *)
(***************************************************************************)
Queries ==
    {"get_inventory", "get_sale", "get_all_sales",
     "get_low_stock_items", "get_out_of_stock_items"}

C19_ReadOnly ==
    [][ /\ last'.op \in Queries => (db' = db /\ disk' = disk)
        /\ ( /\ last.op = "get_inventory" /\ last.ok
              /\ last'.op = "get_inventory" /\ last'.ok
              /\ last'.variant = last.variant )
           => last'.result = last.result ]_vars

\* the second of two get_inventory calls on a variant that has stock
C19_Witness ==
    /\ last.op = "get_inventory" /\ last.ok /\ last.again
    /\ last.result # <<>>
    /\ last.result[1].quantity > 0
    /\ db.sales # {}

(***************************************************************************)
(* C20.  Every persisted SaleItem has a matching inventory debit: in every *)
(* reachable state, for each SaleItem row there is an InventoryTransaction *)
(* row of type SALE with the same product_variant_id, reference_id = the   *)
(* item's sale_id and quantity_change = minus the item's quantity (equal   *)
(* SaleItem rows have as many such rows).                                  *)
(***************************************************************************)
DebitRow(si) ==
    [product_variant_id |-> si.product_variant_id, quantity_change |-> 0 - si.quantity,
     transaction_type |-> SALE, reference_id |-> si.sale_id]

C20_SaleItemHasDebit ==
    \A si \in DOMAIN disk.sale_items :
        /\ BagIn(DebitRow(si), disk.inventory_transactions)
        /\ CopiesIn(DebitRow(si), disk.inventory_transactions)
               >= CopiesIn(si, disk.sale_items)

\* a committed sale with two equal lines, and so two equal debits
C20_Witness ==
    /\ last.op = "create_sale" /\ last.ok
    /\ \E si \in DOMAIN disk.sale_items :
          /\ CopiesIn(si, disk.sale_items) = 2
          /\ CopiesIn(DebitRow(si), disk.inventory_transactions) = 2

(***************************************************************************)
(* C21.  In every state reachable through add_product, add_variant,        *)
(* delete_variant and delete_product, each ProductVariant has exactly one  *)
(* Inventory row and no Inventory row exists for a variant that does not   *)
(* exist (in the connection's view and in the committed tables).           *)
(***************************************************************************)
OneInventoryPerVariant(d) ==
    /\ \A r \in d.product_variants : Len(InventoryRows(d, r.id)) = 1
    /\ \A i \in DOMAIN d.inventory : VariantExists(d, d.inventory[i].product_variant_id)

C21_OneInventoryPerVariant ==
    /\ OneInventoryPerVariant(db)
    /\ OneInventoryPerVariant(disk)

\* a product with two variants has just been deleted, and their rows with it
C21_Witness ==
    /\ last.op = "delete_product" /\ last.ok
    /\ Cardinality(VariantsOf(pre, last.product_id)) = 2
    /\ Len(pre.inventory) = 2
    /\ db.inventory = <<>>

(***************************************************************************)
(* C22.  The InventoryTransaction ledger is append-only: once a row is     *)
(* committed, no later controller operation (create_sale, cancel_sale,     *)
(* update_inventory, adjust_inventory, delete_variant, delete_product,     *)
(* delete_customer) changes or removes it; the SALE and RETURN rows of a   *)
(* cancelled sale remain.  Every step keeps each committed row, in as many *)
(* copies as before.                                                       *)
(***************************************************************************)
C22_LedgerAppendOnly ==
    [][ /\ disk.inventory_transactions \sqsubseteq disk'.inventory_transactions
        /\ disk.inventory_transactions \sqsubseteq db'.inventory_transactions ]_vars

\* a delete is tried on the variant of a cancelled sale: the SALE row and the
\* RETURN row of the sale are in the committed ledger, the sale is gone
C22_Witness ==
    /\ last.op \in {"delete_variant", "delete_product"}
    /\ disk.sales = {}
    /\ \E t \in DOMAIN disk.inventory_transactions :
          t.transaction_type = SALE /\ t.reference_id = 1
    /\ \E t \in DOMAIN disk.inventory_transactions :
          t.transaction_type = RETURN /\ t.reference_id = 1

(***************************************************************************)
(* C23.  Sale prices are snapshots: after a sale is committed,             *)
(* update_product (changing the price or the discount_percent of the sold  *)
(* product) leaves the unit_price, discount_percent and subtotal of every  *)
(* SaleItem row and the total_amount of every Sale row unchanged.          *)
(***************************************************************************)
C23_PriceSnapshot ==
    (last.op = "update_product")
    => ( /\ db.sale_items = pre.sale_items
         /\ db.sales = pre.sales
         /\ disk.sale_items = pre.sale_items
         /\ disk.sales = pre.sales )

\* the price and the discount of a product change after one of its variants
\* was sold at the old price
C23_Witness ==
    /\ last.op = "update_product" /\ last.ok
    /\ \E p \in pre.products :
          /\ p.id = last.product_id
          /\ p.price # last.price
          /\ p.discount_percent # last.discount_percent
          /\ \E si \in DOMAIN pre.sale_items :
                /\ si.product_variant_id \in VariantsOf(pre, p.id)
                /\ si.unit_price = p.price
    /\ \E p \in db.products : p.id = last.product_id /\ p.price = last.price
    /\ \E s \in db.sales : s.total_amount > 0

(***************************************************************************)
(* C24.  setup_database is idempotent: run a second time (no statement     *)
(* failing) it does not fail and leaves every table and the category table *)
(* exactly as after the first run: no duplicate default category, no       *)
(* existing row altered.  Checked as: a run keeps every category row there *)
(* is and leaves each default name on exactly one row, and a run that      *)
(* follows a successful run changes no table.                              *)
(***************************************************************************)
\* the rows of the tables, without the AUTOINCREMENT counter of categories
TablesOf(d) == [d EXCEPT !.seq_categories = 0]

DefaultsOnce(d) ==
    \A i \in DOMAIN default_categories :
        Cardinality({c \in d.categories : c.name = default_categories[i]}) = 1

C24_SetupIdempotent ==
    [][ (last'.op = "setup_database" /\ last'.fault = 0)
        => ( /\ last'.ok
             /\ db.categories \subseteq db'.categories
             /\ DefaultsOnce(db')
             /\ disk' = db'
             /\ (last.op = "setup_database" /\ last.ok)
                => TablesOf(db') = TablesOf(db) ) ]_vars

\* the second of two runs in a row, after a default category had been renamed
\* and the first of the two runs had inserted its name again; a product exists
C24_Witness ==
    /\ last.op = "setup_database" /\ last.ok /\ last.again
    /\ \E c \in db.categories : c.id > Len(default_categories) /\ c.name = "Camisetas"
    /\ \E c \in db.categories : c.id = 1 /\ c.name = "Calzado"
    /\ db.products # {}

(***************************************************************************)
(* C25.  Customer email uniqueness: no two customers share a non-null      *)
(* email; add_customer and update_customer with an email already used by   *)
(* another customer raise before any write and leave the customers table   *)
(* unchanged.  Both run their duplicate check under "if customer.email",   *)
(* which the empty string fails: with the email "" and another customer    *)
(* that has it, the check is skipped, the write is executed and it is the  *)
(* UNIQUE constraint that raises (for update_customer with an id that has  *)
(* no row, nothing raises at all).  The table stays unchanged and unique,  *)
(* but the error does not come before the write: the statement fails on    *)
(* the code.                                                               *)
(***************************************************************************)
EmailsUnique(d) ==
    \A c \in d.customers, o \in d.customers :
        (c.email = o.email /\ c.email # NoEmail) => c = o

RejectedBeforeWriting ==
    /\ ~last.ok
    /\ last.error = "duplicate"
    /\ db.customers = pre.customers
    /\ disk = pre

C25_EmailUniqueness ==
    /\ EmailsUnique(db)
    /\ ( /\ last.op = "add_customer"
          /\ last.email # NoEmail
          /\ EmailTaken(pre, last.email) )
       => RejectedBeforeWriting
    /\ ( /\ last.op = "update_customer"
          /\ last.email # NoEmail
          /\ OtherEmailTaken(pre, [id |-> last.customer_id, email |-> last.email]) )
       => RejectedBeforeWriting

(***************************************************************************)
(* C26.  create_sale never oversells a variant: after a committed sale,    *)
(* the quantities of all its lines for a variant add up to at most the     *)
(* quantity the variant had before the call, also when several lines of    *)
(* the list name the same variant.  The pre-validation loop compares each  *)
(* line alone with the stored quantity, so two lines of one variant pass   *)
(* when each fits and their sum does not: the statement fails on the code. *)
(***************************************************************************)
C26_NeverOversells ==
    (last.op = "create_sale" /\ last.ok)
    => \A i \in DOMAIN last.items :
          LET v == last.items[i].product_variant_id
          IN  Requested(last.items, v) <= Quantity(pre, v)

(***************************************************************************)
(* C27.  No write is left pending: when create_sale, cancel_sale,          *)
(* update_inventory, adjust_inventory, add_product, add_variant,           *)
(* update_variant, delete_variant, delete_product, add_customer or         *)
(* delete_customer returns or raises, the connection holds no uncommitted  *)
(* change, so the rollback of a later failing call undoes nothing of an    *)
(* earlier successful one: a call that raises leaves the tables as the     *)
(* calls before it left them.                                              *)
(***************************************************************************)
WriteOps ==
    {"create_sale", "cancel_sale", "update_inventory", "adjust_inventory",
     "add_product", "add_variant", "update_variant", "delete_variant",
     "delete_product", "add_customer", "delete_customer"}

C27_NoPendingWrite ==
    last.op \in WriteOps
    => /\ db = disk
       /\ ~last.ok => db = pre

\* a create_sale whose transaction insert fails after the sale, the item and the
\* debit were written, in a store that earlier calls filled
C27_Witness ==
    /\ last.op = "create_sale"
    /\ last.fault = 4
    /\ ~last.ok
    /\ db.inventory # <<>>
    /\ db.customers # {}
    /\ db = disk

(***************************************************************************)
(* C28.  A sale's stock is credited back at most once: over any sequence   *)
(* of create_sale and cancel_sale calls, for every sale id and variant the *)
(* ledger holds at most as many RETURN rows with that reference_id as SALE *)
(* rows with it, and the id of a committed sale is never given to a later  *)
(* sale: a committed create_sale returns an id above every id handed out   *)
(* before, whether its sale is still there or was cancelled.               *)
(***************************************************************************)
LedgerCount(d, type, ref, v) ==
    LET rows == {t \in DOMAIN d.inventory_transactions :
                    /\ t.transaction_type = type
                    /\ t.reference_id = ref
                    /\ t.product_variant_id = v}
    IN  SumOver([t \in rows |-> d.inventory_transactions[t]])

C28_CreditedBackOnce ==
    /\ \A sale_id \in 1..MaxSales, v \in VariantIds :
          LedgerCount(db, RETURN, sale_id, v) <= LedgerCount(db, SALE, sale_id, v)
    /\ (last.op = "create_sale" /\ last.ok)
       => /\ last.ret > pre.seq_sales
          /\ \A s \in pre.sales : s.id # last.ret
          /\ \A t \in DOMAIN pre.inventory_transactions :
                t.transaction_type \in {SALE, RETURN} => t.reference_id # last.ret

\* a second sale committed after the first one was cancelled and credited back
C28_Witness ==
    /\ last.op = "create_sale"
    /\ last.ok
    /\ last.ret = MaxSales
    /\ pre.sales = {}
    /\ \E v \in VariantIds : /\ LedgerCount(pre, RETURN, 1, v) > 0
                             /\ LedgerCount(db, SALE, last.ret, v) > 0

(***************************************************************************)
(* C29.  After any sequence of Sale.add_item and Sale.remove_item calls    *)
(* the items hold at most one item per product_variant_id (adding an item  *)
(* of a variant already there adds its quantity to that item),             *)
(* total_amount is the sum of the items' subtotals, and remove_item with   *)
(* an index outside the list returns False and changes nothing.            *)
(***************************************************************************)
OneItemPerVariant(sale) ==
    \A i \in DOMAIN sale.items, j \in DOMAIN sale.items :
        sale.items[i].product_variant_id = sale.items[j].product_variant_id => i = j

QuantityOf(sale, v) == Requested(sale.items, v)

C29_SaleObject ==
    [][ /\ OneItemPerVariant(current_sale')
        /\ current_sale'.total_amount = SumSubtotals(current_sale'.items)
        /\ last'.op = "add_item"
           => /\ last'.ret = TRUE
              /\ QuantityOf(current_sale', last'.variant)
                    = QuantityOf(current_sale, last'.variant) + last'.quantity
              /\ QuantityOf(current_sale, last'.variant) > 0
                 => Len(current_sale'.items) = Len(current_sale.items)
        /\ ( /\ last'.op = "remove_item"
             /\ (last'.index < 0 \/ last'.index >= Len(current_sale.items)) )
           => /\ last'.ret = FALSE
              /\ current_sale' = current_sale
        /\ ( /\ last'.op = "remove_item"
             /\ 0 <= last'.index
             /\ last'.index < Len(current_sale.items) )
           => /\ last'.ret = TRUE
              /\ Len(current_sale'.items) = Len(current_sale.items) - 1
      ]_vars

\* a second item of a variant was added to a sale of two variants, and the line
\* holds more than one call can add
C29_Witness ==
    /\ last.op = "add_item"
    /\ Len(current_sale.items) = 2
    /\ QuantityOf(current_sale, last.variant) = MaxLine
    /\ \E i \in DOMAIN current_sale.items : current_sale.items[i].discount_percent > 0
    /\ current_sale.total_amount > 0

(***************************************************************************)
(* C30.  A sale line built by the sale dialog for a product with an active *)
(* discount d applies the discount once: its subtotal is quantity x        *)
(* Product.price x (1 - d/100), and for a product without an active        *)
(* discount it is quantity x Product.price.  The dialog passes the current *)
(* price, which already carries the discount, as unit_price and the        *)
(* discount again as discount_percent, so the subtotal is quantity x       *)
(* Product.price x (1 - d/100)^2: the statement fails on the code.         *)
(***************************************************************************)
C30_DiscountOnce ==
    last.op = "add_to_sale"
    => LET item == last.items[1]
       IN  item.subtotal =
              IF last.active
              THEN (item.quantity * last.price * (Percent - last.discount_percent))
                      \div Percent
              ELSE item.quantity * last.price
====
